---- MODULE Spec2Model ----
(***************************************************************************)
(* A model of the two demonstration scripts of the repository:             *)
(*   - the promise script (fetchData, the .then/.catch chain, the async    *)
(*     functions getData, getAllData, getFastestData, fetchAllWithErrors,  *)
(*     fetchWithAllSettled, and Promise.resolve/Promise.reject), run on a  *)
(*     single-threaded event loop with a timer queue and a microtask queue;*)
(*   - the closure script (createCounter and its three operations).        *)
(*                                                                         *)
(* Time is in milliseconds.  The loop's clock is read once per loop         *)
(* iteration, so it does not advance while a task runs: every timer the    *)
(* main script creates starts at the same instant.  A timer never fires    *)
(* before it is due and may fire late (Tick may jump past several due      *)
(* times).                                                                 *)
(***************************************************************************)
EXTENDS Integers, Sequences, FiniteSets, TLC

VARIABLES
  args,      \* call site -> the argument list of that fetchData call
  todo,      \* the top-level statements of the promise script still to run
  promises,  \* the heap of promise objects, by allocation order
  timers,    \* the pending setTimeout timers, in creation order
  jobs,      \* the microtask (promise job) queue
  running,   \* the call stack of the event loop: the tasks being executed
  now,       \* the event loop's clock
  log,       \* the console of the promise script
  counters,  \* the private count of every counter made by createCounter
  hist,      \* per counter, the operations called on it so far (history)
  clog,      \* the console of the closure script
  document,  \* the identifiers of the elements of the UI document
  listeners, \* per element, the click handlers registered on it, in order
  buttons,   \* the scope of every setupButton call: buttonId, button, clickCount
  seen,      \* per setupButton call, the clicks dispatched to its handler (history)
  thrown     \* the errors raised by calls of the closure script

pvars == <<args, todo, promises, timers, jobs, running, now, log>>
bvars == <<document, listeners, buttons, seen, thrown>>
cvars == <<counters, hist, clog, document, listeners, buttons, seen, thrown>>
vars == <<args, todo, promises, timers, jobs, running, now, log,
          counters, hist, clog, document, listeners, buttons, seen, thrown>>

----------------------------------------------------------------------------
(* Bounds of the model *)

MaxDelay == 2       \* generated delays are 0..MaxDelay
MaxCounters == 2    \* counters created by createCounter
MaxOps == 5         \* operations called on the counters, in all
MaxButtons == 2     \* calls of setupButton

(* Program constants *)

DefaultDelay == 1000

----------------------------------------------------------------------------
(* JavaScript values *)

Undefined == [t |-> "undefined"]
Str(s) == [t |-> "string", s |-> s]
Arr(a) == [t |-> "array", a |-> a]

----------------------------------------------------------------------------
(* The call sites of fetchData, in program order, and the demonstrations *)

Sites == 1..14
Demos == 1..7

SitesOf(k) ==
  CASE k = 1 -> <<1>>
    [] k = 2 -> <<2>>
    [] k = 3 -> <<3, 4, 5>>
    [] k = 4 -> <<6, 7, 8>>
    [] k = 5 -> <<>>
    [] k = 6 -> <<9, 10, 11>>
    [] k = 7 -> <<12, 13, 14>>

ScriptArgs ==
  <<  <<"API 1", 500>>,
      <<"API 2", 1000>>,
      <<"API 3", 1000>>, <<"API 4", 1500>>, <<"API 5", 2000>>,
      <<"Fast API", 500>>, <<"Slower API", 1000>>, <<"Slowest API", 1500>>,
      <<"API 6", 800>>, <<"API 7", 1200, TRUE>>, <<"API 8", 1000>>,
      <<"API 9", 1000>>, <<"API 10", 500, TRUE>>, <<"API 11", 1500>>  >>

(* The parameters of fetchData with their defaults applied *)
apiName(a) == a[1]
delay(a) == IF Len(a) >= 2 THEN a[2] ELSE DefaultDelay
shouldFail(a) == IF Len(a) >= 3 THEN a[3] ELSE FALSE

----------------------------------------------------------------------------
(* The heap: promises, timers, jobs and console, threaded through the      *)
(* operators below as one record so that a handler's nested calls compose. *)

Heap == [promises |-> promises, timers |-> timers, jobs |-> jobs, log |-> log]

NewPromise(h, kind, site, demo) ==
  [h EXCEPT !.promises = Append(@,
     [kind |-> kind, site |-> site, demo |-> demo,
      state |-> "pending", value |-> Undefined,
      reactions |-> <<>>, handled |-> FALSE,
      elems |-> <<>>, remaining |-> 0])]

Last(h) == Len(h.promises)

ConsoleOut(h, level, text, vals) ==
  [h EXCEPT !.log = Append(@, [level |-> level, text |-> text, vals |-> vals])]

NewJob(r, p, state, value) ==
  [reaction |-> r, src |-> p, state |-> state, argument |-> value]

(* resolve(value) / reject(reason) of promise p: the first call settles   *)
(* the promise and queues one job per registered reaction; later calls    *)
(* do nothing.                                                            *)
Settle(h, p, state, value) ==
  IF h.promises[p].state # "pending" THEN h
  ELSE LET rs == h.promises[p].reactions IN
       [h EXCEPT !.promises[p].state = state,
                 !.promises[p].value = value,
                 !.promises[p].reactions = <<>>,
                 !.jobs = @ \o [i \in 1..Len(rs) |-> NewJob(rs[i], p, state, value)]]

(* Mutant of Then: the reaction's job is queued at registration, whatever *)
(* the state of p.                                                        *)
ThenEager(h, p, r) ==
  LET h1 == [h EXCEPT !.promises[p].handled = TRUE] IN
  [h1 EXCEPT !.jobs = Append(@, NewJob(r, p, h1.promises[p].state, h1.promises[p].value))]

(* p.then(...) / p.catch(...) / await p: register the reaction while p is *)
(* pending, queue its job at once when p is already settled.              *)
Then(h, p, r) ==
  LET h1 == [h EXCEPT !.promises[p].handled = TRUE] IN
  IF h1.promises[p].state = "pending"
  THEN [h1 EXCEPT !.promises[p].reactions = Append(@, r)]
  ELSE [h1 EXCEPT !.jobs = Append(@, NewJob(r, p, h1.promises[p].state, h1.promises[p].value))]

----------------------------------------------------------------------------
(* fetchData(apiName, delay, shouldFail), called at a call site: a new     *)
(* pending promise whose executor arms one timer.  The timer's callback    *)
(* closes over apiName, shouldFail and the promise's resolve/reject.       *)

(* Mutant of setTimeout: the delay counts from the due time of the timer *)
(* armed before it, as if the operations ran one after the other.         *)
setTimeoutAfterPrevious(h, p, name, ms, fail) ==
  LET start == IF h.timers = <<>> THEN now ELSE h.timers[Len(h.timers)].due IN
  [h EXCEPT !.timers = Append(@,
     [promise |-> p, apiName |-> name, shouldFail |-> fail,
      delay |-> ms, due |-> start + ms])]

setTimeout(h, p, name, ms, fail) ==
  [h EXCEPT !.timers = Append(@,
     [promise |-> p, apiName |-> name, shouldFail |-> fail,
      delay |-> ms, due |-> now + ms])]

(* Mutant of fetchData: a delay of 0 runs the callback inside the executor *)
fetchDataSync(h, site, demo) ==
  LET a == args[site]
      h1 == NewPromise(h, "fetchData", site, demo)
  IN  IF delay(a) = 0
      THEN IF shouldFail(a)
           THEN Settle(h1, Last(h1), "rejected", Str("Error fetching data from " \o apiName(a)))
           ELSE Settle(h1, Last(h1), "fulfilled", Str(apiName(a) \o " data"))
      ELSE setTimeout(h1, Last(h1), apiName(a), delay(a), shouldFail(a))

fetchData(h, site, demo) ==
  LET a == args[site]
      h1 == NewPromise(h, "fetchData", site, demo)
  IN  setTimeout(h1, Last(h1), apiName(a), delay(a), shouldFail(a))

(* Mutant of TimerCallback: the test of shouldFail is inverted *)
TimerCallbackInverted(h, t) ==
  IF ~t.shouldFail
  THEN Settle(h, t.promise, "rejected", Str("Error fetching data from " \o t.apiName))
  ELSE Settle(h, t.promise, "fulfilled", Str(t.apiName \o " data"))

(* Mutant of TimerCallback: a failing call never calls reject *)
TimerCallbackSilentFailure(h, t) ==
  IF t.shouldFail
  THEN h
  ELSE Settle(h, t.promise, "fulfilled", Str(t.apiName \o " data"))

(* The callback handed to setTimeout *)
TimerCallback(h, t) ==
  IF t.shouldFail
  THEN Settle(h, t.promise, "rejected", Str("Error fetching data from " \o t.apiName))
  ELSE Settle(h, t.promise, "fulfilled", Str(t.apiName \o " data"))

----------------------------------------------------------------------------
(* Reactions.  type is the pair of handlers a registration carries:        *)
(*   "then"       .then(v => console.<level>(text, v))                     *)
(*   "catch"      .catch(e => console.<level>(text, e))                    *)
(*   "await"      the continuation of the async function of demonstration demo *)
(*   "all"        Promise.all's element function for position index        *)
(*   "race"       Promise.race's resolve/reject of the aggregate           *)
(*   "allSettled" Promise.allSettled's element functions for position index*)
(* target is the promise the reaction settles: the derived promise of      *)
(* then/catch, the aggregate of a combinator, the async function's promise.*)

Reaction(type, target, demo, index, level, text) ==
  [type |-> type, target |-> target, demo |-> demo, index |-> index,
   level |-> level, text |-> text]

(* Promise.all(inputs), Promise.race(inputs), Promise.allSettled(inputs) *)
RECURSIVE ThenEach(_, _, _, _, _)
ThenEach(h, inputs, i, type, agg) ==
  IF i > Len(inputs) THEN h
  ELSE ThenEach(Then(h, inputs[i], Reaction(type, agg, h.promises[agg].demo, i, "", "")),
                inputs, i + 1, type, agg)

Combinator(h, kind, inputs, demo) ==
  LET h1 == NewPromise(h, kind, 0, demo)
      agg == Last(h1)
      h2 == [h1 EXCEPT !.promises[agg].elems = [i \in 1..Len(inputs) |-> Undefined],
                       !.promises[agg].remaining = Len(inputs)]
      h3 == ThenEach(h2, inputs, 1, kind, agg)
  IN  IF Len(inputs) = 0 /\ kind # "race"
      THEN Settle(h3, agg, "fulfilled", Arr(<<>>))
      ELSE h3

(* Mutant of AllResolveElement: values are stored in order of arrival *)
AllResolveElementArrival(h, agg, index, x) ==
  LET at == Len(h.promises[agg].elems) - h.promises[agg].remaining + 1
      h1 == [h EXCEPT !.promises[agg].elems[at] = x,
                      !.promises[agg].remaining = @ - 1]
  IN  IF h1.promises[agg].remaining = 0
      THEN Settle(h1, agg, "fulfilled", Arr(h1.promises[agg].elems))
      ELSE h1

(* Promise.all's resolve-element function: store by position, resolve the *)
(* aggregate with the whole array when the last one arrives.              *)
AllResolveElement(h, agg, index, x) ==
  LET h1 == [h EXCEPT !.promises[agg].elems[index] = x,
                      !.promises[agg].remaining = @ - 1]
  IN  IF h1.promises[agg].remaining = 0
      THEN Settle(h1, agg, "fulfilled", Arr(h1.promises[agg].elems))
      ELSE h1

(* Mutant of SettledEntry: every entry is tagged fulfilled *)
SettledEntryFulfilled(state, x) == [status |-> "fulfilled", value |-> x]

(* Promise.allSettled's element functions *)
SettledEntry(state, x) ==
  IF state = "fulfilled"
  THEN [status |-> "fulfilled", value |-> x]
  ELSE [status |-> "rejected", reason |-> x]

AllSettledElement(h, agg, index, state, x) ==
  AllResolveElement(h, agg, index, SettledEntry(state, x))

----------------------------------------------------------------------------
(* The bodies of the async functions after their await: the try branch on *)
(* success, the catch branch on failure.  The function then returns, which *)
(* fulfils its own promise with undefined; fetchWithAllSettled has no      *)
(* try/catch, so a failure of its await would reject its promise.          *)

RECURSIVE ForEachResult(_, _, _)
ForEachResult(h, results, i) ==
  IF i > Len(results) THEN h
  ELSE LET r == results[i]
           h1 == IF r.status = "fulfilled"
                 THEN ConsoleOut(h, "log",
                        "API " \o ToString((i - 1) + 9) \o " succeeded with data:", <<r.value>>)
                 ELSE ConsoleOut(h, "warn",
                        "API " \o ToString((i - 1) + 9) \o " failed with reason:", <<r.reason>>)
       IN  ForEachResult(h1, results, i + 1)

Resume(h, demo, fn, state, x) ==
  LET ok == state = "fulfilled" IN
  CASE demo = 2 ->
         Settle(IF ok THEN ConsoleOut(h, "log", "Async/Await data:", <<x>>)
                      ELSE ConsoleOut(h, "error", "Async/Await Error:", <<x>>),
                fn, "fulfilled", Undefined)
    [] demo = 3 ->
         Settle(IF ok THEN ConsoleOut(h, "log", "All data fetched:", <<x.a[1], x.a[2], x.a[3]>>)
                      ELSE ConsoleOut(h, "error", "Error in Promise.all:", <<x>>),
                fn, "fulfilled", Undefined)
    [] demo = 4 ->
         Settle(IF ok THEN ConsoleOut(h, "log", "Fastest data received:", <<x>>)
                      ELSE ConsoleOut(h, "error", "Error in Promise.race:", <<x>>),
                fn, "fulfilled", Undefined)
    [] demo = 6 ->
         Settle(IF ok THEN ConsoleOut(h, "log", "Fetched all successfully:", <<x>>)
                      ELSE ConsoleOut(h, "error", "Error in one of the APIs:", <<x>>),
                fn, "fulfilled", Undefined)
    [] demo = 7 ->
         IF ok THEN Settle(ForEachResult(h, x.a, 1), fn, "fulfilled", Undefined)
               ELSE Settle(h, fn, "rejected", x)

(* Mutant of AllReaction: a failure is stored like a value and the        *)
(* aggregate waits for the other inputs.                                  *)
AllReactionWaits(h, agg, index, state, x) == AllResolveElement(h, agg, index, x)

(* Promise.all's pair of handlers on one input: the element function on  *)
(* success, the aggregate's reject on failure.                            *)
AllReaction(h, agg, index, state, x) ==
  IF state = "fulfilled"
  THEN AllResolveElement(h, agg, index, x)
  ELSE Settle(h, agg, "rejected", x)

(* Mutant of RaceReaction: only a success settles the aggregate *)
RaceReactionFirstSuccess(h, agg, state, x) ==
  IF state = "fulfilled" THEN Settle(h, agg, state, x) ELSE h

(* Promise.race's pair of handlers: the aggregate's resolve and reject *)
RaceReaction(h, agg, state, x) == Settle(h, agg, state, x)

(* One promise reaction job *)
RunReaction(h, j) ==
  LET r == j.reaction
      ok == j.state = "fulfilled"
      x == j.argument
  IN
  CASE r.type = "then" ->
         IF ok THEN Settle(ConsoleOut(h, r.level, r.text, <<x>>), r.target, "fulfilled", Undefined)
               ELSE Settle(h, r.target, "rejected", x)
    [] r.type = "catch" ->
         IF ok THEN Settle(h, r.target, "fulfilled", x)
               ELSE Settle(ConsoleOut(h, r.level, r.text, <<x>>), r.target, "fulfilled", Undefined)
    [] r.type = "await" -> Resume(h, r.demo, r.target, j.state, x)
    [] r.type = "all" -> AllReaction(h, r.target, r.index, j.state, x)
    [] r.type = "race" -> RaceReaction(h, r.target, j.state, x)
    [] r.type = "allSettled" -> AllSettledElement(h, r.target, r.index, j.state, x)

----------------------------------------------------------------------------
(* The top-level statements of the promise script.  Each runs inside the   *)
(* main script task, up to the first await of the function it calls.       *)

(* p.then(handler) and p.catch(handler): a derived promise and a reaction *)
Chain(h, p, type, demo, level, text) ==
  LET h1 == NewPromise(h, type, 0, demo)
  IN  Then(h1, p, Reaction(type, Last(h1), demo, 0, level, text))

(* Mutant of Await: the function goes on without waiting for p *)
AwaitNoSuspend(h, p, fn, demo) == ThenEager(h, p, Reaction("await", fn, demo, 0, "", ""))

(* await p inside the async function whose promise is fn *)
Await(h, p, fn, demo) == Then(h, p, Reaction("await", fn, demo, 0, "", ""))

(* [fetchData(..), fetchData(..), fetchData(..)]: the calls in order *)
RECURSIVE FetchEach(_, _, _, _)
FetchEach(h, sites, i, demo) ==
  IF i > Len(sites) THEN h
  ELSE FetchEach(fetchData(h, sites[i], demo), sites, i + 1, demo)

(* The promises FetchEach has just allocated, in input order *)
JustFetched(h, n) == [i \in 1..n |-> Len(h.promises) - n + i]

(* 1. fetchData("API 1", 500).then(...).catch(...) *)
ThenCatch(h) ==
  LET h1 == fetchData(h, 1, 1)
      h2 == Chain(h1, Last(h1), "then", 1, "log", "Data received:")
  IN  Chain(h2, Last(h2), "catch", 1, "error", "Failed to fetch data:")

(* 2. getData() *)
getData(h) ==
  LET h1 == NewPromise(h, "async", 0, 2)
      h2 == fetchData(h1, 2, 2)
  IN  Await(h2, Last(h2), Last(h1), 2)

(* An async function awaiting a combinator over three fetchData calls *)
AwaitCombinator(h, kind, demo) ==
  LET h1 == NewPromise(h, "async", 0, demo)
      h2 == FetchEach(h1, SitesOf(demo), 1, demo)
      h3 == Combinator(h2, kind, JustFetched(h2, Len(SitesOf(demo))), demo)
  IN  Await(h3, Last(h3), Last(h1), demo)

(* 3. getAllData()   4. getFastestData() *)
getAllData(h) == AwaitCombinator(h, "all", 3)
getFastestData(h) == AwaitCombinator(h, "race", 4)

(* 5. alwaysResolve().then(...); alwaysReject().catch(...) *)
alwaysResolve(h) ==
  LET h1 == NewPromise(h, "resolve", 0, 5)
  IN  Settle(h1, Last(h1), "fulfilled", Str("This is resolved data"))

alwaysReject(h) ==
  LET h1 == NewPromise(h, "reject", 0, 5)
  IN  Settle(h1, Last(h1), "rejected", Str("This promise is always rejected"))

(* Mutant of ResolveReject: alwaysReject() is called without .catch(...) *)
ResolveRejectUncaught(h) ==
  LET h1 == alwaysResolve(h)
      h2 == Chain(h1, Last(h1), "then", 5, "log", "Resolved:")
  IN  alwaysReject(h2)

ResolveReject(h) ==
  LET h1 == alwaysResolve(h)
      h2 == Chain(h1, Last(h1), "then", 5, "log", "Resolved:")
      h3 == alwaysReject(h2)
  IN  Chain(h3, Last(h3), "catch", 5, "error", "Rejected:")

(* 6. fetchAllWithErrors()   7. fetchWithAllSettled() *)
fetchAllWithErrors(h) == AwaitCombinator(h, "all", 6)
fetchWithAllSettled(h) == AwaitCombinator(h, "allSettled", 7)

Statement(k, h) ==
  CASE k = 1 -> ThenCatch(h)
    [] k = 2 -> getData(h)
    [] k = 3 -> getAllData(h)
    [] k = 4 -> getFastestData(h)
    [] k = 5 -> ResolveReject(h)
    [] k = 6 -> fetchAllWithErrors(h)
    [] k = 7 -> fetchWithAllSettled(h)

----------------------------------------------------------------------------
(* The event loop *)

Commit(h) ==
  /\ promises' = h.promises
  /\ timers' = h.timers
  /\ jobs' = h.jobs
  /\ log' = h.log

Top == running[Len(running)]
Pop == SubSeq(running, 1, Len(running) - 1)
Executing(kind) == running # <<>> /\ Top.kind = kind

(* The loop takes a new task only when nothing is executing *)
LoopIdle == running = <<>>

(* The main script executes its next top-level statement *)
RunStatement ==
  /\ Executing("script")
  /\ todo # <<>>
  /\ Commit(Statement(Head(todo), Heap))
  /\ todo' = Tail(todo)
  /\ UNCHANGED <<args, running, now, cvars>>

(* The main script returns *)
ScriptEnd ==
  /\ Executing("script")
  /\ todo = <<>>
  /\ running' = Pop
  /\ UNCHANGED <<args, todo, promises, timers, jobs, now, log, cvars>>

(* Microtasks are drained, oldest first, whenever the stack is empty *)
DispatchJob ==
  /\ LoopIdle
  /\ jobs # <<>>
  /\ running' = Append(running, [kind |-> "job", job |-> Head(jobs)])
  /\ jobs' = Tail(jobs)
  /\ UNCHANGED <<args, todo, promises, timers, now, log, cvars>>

RunJob ==
  /\ Executing("job")
  /\ Commit(RunReaction(Heap, Top.job))
  /\ running' = Pop
  /\ UNCHANGED <<args, todo, now, cvars>>

(* The timer to run next: among the due ones the earliest due, and among  *)
(* those the first created.                                               *)
Due(i) == timers[i].due <= now

(* Mutant of NextTimer: among the due timers, the first created *)
NextTimerInProgramOrder ==
  CHOOSE i \in 1..Len(timers) :
    /\ Due(i)
    /\ \A j \in 1..Len(timers) : Due(j) => i <= j

(* Mutant of NextTimer: among timers due at the same time, the last created *)
NextTimerLastCreated ==
  CHOOSE i \in 1..Len(timers) :
    /\ Due(i)
    /\ \A j \in 1..Len(timers) :
         Due(j) => \/ timers[i].due < timers[j].due
                   \/ timers[i].due = timers[j].due /\ i >= j

NextTimer ==
  CHOOSE i \in 1..Len(timers) :
    /\ Due(i)
    /\ \A j \in 1..Len(timers) :
         Due(j) => \/ timers[i].due < timers[j].due
                   \/ timers[i].due = timers[j].due /\ i <= j

Remove(q, i) == SubSeq(q, 1, i - 1) \o SubSeq(q, i + 1, Len(q))

(* Mutant of DispatchTimer: a due timer is taken while microtasks wait *)
DispatchTimerBeforeJobs ==
  /\ LoopIdle
  /\ \E i \in 1..Len(timers) : Due(i)
  /\ running' = Append(running, [kind |-> "timer", timer |-> timers[NextTimer]])
  /\ timers' = Remove(timers, NextTimer)
  /\ UNCHANGED <<args, todo, promises, jobs, now, log, cvars>>

DispatchTimer ==
  /\ LoopIdle
  /\ jobs = <<>>
  /\ \E i \in 1..Len(timers) : Due(i)
  /\ running' = Append(running, [kind |-> "timer", timer |-> timers[NextTimer]])
  /\ timers' = Remove(timers, NextTimer)
  /\ UNCHANGED <<args, todo, promises, jobs, now, log, cvars>>

RunTimer ==
  /\ Executing("timer")
  /\ Commit(TimerCallback(Heap, Top.timer))
  /\ running' = Pop
  /\ UNCHANGED <<args, todo, now, cvars>>

(* Between two tasks the clock moves on, to the due time of some timer *)
Tick ==
  /\ LoopIdle
  /\ jobs = <<>>
  /\ \E i \in 1..Len(timers) :
       /\ timers[i].due > now
       /\ now' = timers[i].due
  /\ UNCHANGED <<args, todo, promises, timers, jobs, running, log, cvars>>

Next ==
  \/ RunStatement
  \/ ScriptEnd
  \/ DispatchJob
  \/ RunJob
  \/ DispatchTimer
  \/ RunTimer
  \/ Tick

----------------------------------------------------------------------------
(* Initial states *)

Ids == {"myButton", "otherButton"}

NoButtons ==
  /\ document = {}
  /\ listeners = [id \in Ids |-> <<>>]
  /\ buttons = <<>>
  /\ seen = <<>>
  /\ thrown = <<>>

NoCounters ==
  /\ counters = <<>>
  /\ hist = <<>>
  /\ clog = <<>>
  /\ NoButtons

EmptyLoop ==
  /\ promises = <<>>
  /\ timers = <<>>
  /\ jobs = <<>>
  /\ now = 0
  /\ log = <<>>

(* The promise script as written *)
InitScript ==
  /\ args = ScriptArgs
  /\ todo = <<1, 2, 3, 4, 5, 6, 7>>
  /\ running = <<[kind |-> "script"]>>
  /\ EmptyLoop
  /\ NoCounters

(* The argument lists a generated fetchData call may have: the name alone, *)
(* name and delay, or all three.                                           *)
GenNames(s) == IF s <= 2 THEN {apiName(ScriptArgs[s]), "X"} ELSE {apiName(ScriptArgs[s])}
GenDelays == 0..MaxDelay

GenArgs(s) ==
  {<<n>> : n \in GenNames(s)}
    \cup {<<n, d>> : n \in GenNames(s), d \in GenDelays}
    \cup {<<n, d, f>> : n \in GenNames(s), d \in GenDelays, f \in BOOLEAN}

SiteSet(k) == {SitesOf(k)[i] : i \in 1..Len(SitesOf(k))}

(* One demonstration alone, its fetchData calls given generated arguments *)
InitDemo(k) ==
  /\ \E g \in [SiteSet(k) -> UNION {GenArgs(s) : s \in SiteSet(k)}] :
       /\ \A s \in SiteSet(k) : g[s] \in GenArgs(s)
       /\ args = [s \in Sites |-> IF s \in SiteSet(k) THEN g[s] ELSE ScriptArgs[s]]
  /\ todo = <<k>>
  /\ running = <<[kind |-> "script"]>>
  /\ EmptyLoop
  /\ NoCounters

Init == InitScript \/ \E k \in Demos : InitDemo(k)

Spec == Init /\ [][Next]_vars
SpecScript == InitScript /\ [][Next]_vars

(* The script with the arguments of one fetchData call replaced by        *)
(* generated ones                                                         *)
InitVariant ==
  /\ \E s \in Sites : \E a \in GenArgs(s) : args = [ScriptArgs EXCEPT ![s] = a]
  /\ todo = <<1, 2, 3, 4, 5, 6, 7>>
  /\ running = <<[kind |-> "script"]>>
  /\ EmptyLoop
  /\ NoCounters

SpecVariant == (InitScript \/ InitVariant) /\ [][Next]_vars

(* The event loop does not stop while a task, a microtask or a timer is   *)
(* left: the clock moves on and whatever is ready is run.                 *)
FairScript == SpecScript /\ WF_vars(Next)

----------------------------------------------------------------------------
(* The closure script: createCounter and the three operations of the      *)
(* object it returns.  counters[c] is the variable count captured by the  *)
(* closures of the c-th call.                                             *)

(* Mutant of increment: count is one variable shared by all counters *)
incrementShared(cs, c) == [i \in DOMAIN cs |-> cs[i] + 1]

(* Mutant of decrement: the count is not allowed below 0 *)
decrementFloor(cs, c) == [cs EXCEPT ![c] = IF @ > 0 THEN @ - 1 ELSE 0]

(* Mutant of reset: only a positive count is reset *)
resetIfPositive(cs, c) == [cs EXCEPT ![c] = IF @ > 0 THEN 0 ELSE @]

createCounter(cs) == Append(cs, 0)
increment(cs, c) == [cs EXCEPT ![c] = @ + 1]
decrement(cs, c) == [cs EXCEPT ![c] = @ - 1]
reset(cs, c) == [cs EXCEPT ![c] = 0]

Called(c, op) == hist' = [hist EXCEPT ![c] = Append(@, op)]

CreateCounter ==
  /\ Len(counters) < MaxCounters
  /\ counters' = createCounter(counters)
  /\ hist' = Append(hist, <<>>)
  /\ UNCHANGED <<clog, pvars, bvars>>

Increment(c) ==
  /\ Len(clog) < MaxOps
  /\ counters' = increment(counters, c)
  /\ clog' = Append(clog, [text |-> "Current count:", vals |-> <<counters'[c]>>])
  /\ Called(c, "increment")
  /\ UNCHANGED <<pvars, bvars>>

Decrement(c) ==
  /\ Len(clog) < MaxOps
  /\ counters' = decrement(counters, c)
  /\ clog' = Append(clog, [text |-> "Current count:", vals |-> <<counters'[c]>>])
  /\ Called(c, "decrement")
  /\ UNCHANGED <<pvars, bvars>>

Reset(c) ==
  /\ Len(clog) < MaxOps
  /\ counters' = reset(counters, c)
  /\ clog' = Append(clog, [text |-> "Counter reset.", vals |-> <<>>])
  /\ Called(c, "reset")
  /\ UNCHANGED <<pvars, bvars>>

NextClosure ==
  \/ CreateCounter
  \/ \E c \in 1..Len(counters) : Increment(c)
  \/ \E c \in 1..Len(counters) : Decrement(c)
  \/ \E c \in 1..Len(counters) : Reset(c)

InitClosure ==
  /\ NoCounters
  /\ args = ScriptArgs
  /\ todo = <<>>
  /\ running = <<>>
  /\ EmptyLoop

SpecClosure == InitClosure /\ [][NextClosure]_vars

----------------------------------------------------------------------------
(* setupButton and the click events of the UI document.  An element is    *)
(* identified by its id; document.getElementById gives null for an id no   *)
(* element has, and calling a method on null raises a TypeError.           *)

getElementById(doc, id) == IF id \in doc THEN id ELSE "null"

(* Mutant of setupButton: the lookup result is checked, a missing element *)
(* makes the call return quietly.                                         *)
setupButtonChecked(st, buttonId) ==
  LET button == getElementById(document, buttonId)
      st1 == [st EXCEPT !.buttons = Append(@,
                [buttonId |-> buttonId, button |-> button, clickCount |-> 0])]
  IN  IF button = "null"
      THEN st1
      ELSE [st1 EXCEPT !.listeners[button] = Append(@, Len(st1.buttons))]

(* let clickCount = 0; the lookup; addEventListener("click", handler) *)
setupButton(st, buttonId) ==
  LET button == getElementById(document, buttonId)
      st1 == [st EXCEPT !.buttons = Append(@,
                [buttonId |-> buttonId, button |-> button, clickCount |-> 0])]
  IN  IF button = "null"
      THEN [st1 EXCEPT !.thrown = Append(@, [error |-> "TypeError", buttonId |-> buttonId])]
      ELSE [st1 EXCEPT !.listeners[button] = Append(@, Len(st1.buttons))]

(* Mutant of clickHandler: clickCount is one variable shared by all handlers *)
clickHandlerShared(bs, b) ==
  [i \in DOMAIN bs |-> [bs[i] EXCEPT !.clickCount = @ + 1]]

(* The handler's clickCount++ *)
clickHandler(bs, b) == [bs EXCEPT ![b].clickCount = @ + 1]

(* One click event: the handlers of the element run in registration order, *)
(* each incrementing its own clickCount and logging it.                    *)
RECURSIVE DispatchClick(_, _, _)
DispatchClick(st, ls, i) ==
  IF i > Len(ls) THEN st
  ELSE LET bs == clickHandler(st.buttons, ls[i])
           line == "Button " \o bs[ls[i]].buttonId \o " clicked "
                     \o ToString(bs[ls[i]].clickCount) \o " times."
       IN  DispatchClick([st EXCEPT !.buttons = bs,
                                    !.clog = Append(@, [text |-> line, vals |-> <<>>])],
                         ls, i + 1)

Scopes == [buttons |-> buttons, listeners |-> listeners, thrown |-> thrown, clog |-> clog]

SetupButton(id) ==
  /\ Len(buttons) < MaxButtons
  /\ LET st == setupButton(Scopes, id) IN
       /\ buttons' = st.buttons
       /\ listeners' = st.listeners
       /\ thrown' = st.thrown
  /\ seen' = Append(seen, 0)
  /\ UNCHANGED <<document, counters, hist, clog, pvars>>

Click(id) ==
  /\ id \in document
  /\ Len(clog) + Len(listeners[id]) <= MaxOps
  /\ LET st == DispatchClick(Scopes, listeners[id], 1) IN
       /\ buttons' = st.buttons
       /\ clog' = st.clog
  /\ seen' = [b \in DOMAIN seen |->
               IF \E i \in 1..Len(listeners[id]) : listeners[id][i] = b
               THEN seen[b] + 1 ELSE seen[b]]
  /\ UNCHANGED <<document, listeners, thrown, counters, hist, pvars>>

(* An element is added to the document *)
AddElement(id) ==
  /\ id \notin document
  /\ document' = document \cup {id}
  /\ UNCHANGED <<listeners, buttons, seen, thrown, counters, hist, clog, pvars>>

NextButton ==
  \/ \E id \in Ids : SetupButton(id)
  \/ \E id \in Ids : Click(id)
  \/ \E id \in Ids : AddElement(id)
  \/ \E c \in 1..Len(counters) : Increment(c)
  \/ \E c \in 1..Len(counters) : Decrement(c)
  \/ \E c \in 1..Len(counters) : Reset(c)

(* After const counter = createCounter(), with any elements in the document *)
InitButton ==
  /\ counters = <<0>>
  /\ hist = << <<>> >>
  /\ clog = <<>>
  /\ document \in SUBSET Ids
  /\ listeners = [id \in Ids |-> <<>>]
  /\ buttons = <<>>
  /\ seen = <<>>
  /\ thrown = <<>>
  /\ args = ScriptArgs
  /\ todo = <<>>
  /\ running = <<>>
  /\ EmptyLoop

SpecButton == InitButton /\ [][NextButton]_vars

----------------------------------------------------------------------------
(* Vocabulary of the properties *)

Promises == 1..Len(promises)
Fetched == {p \in Promises : promises[p].kind = "fetchData"}
Settled(p) == promises[p].state \in {"fulfilled", "rejected"}
ArgsOf(p) == args[promises[p].site]

(* Nothing is left to run *)
Quiescent == todo = <<>> /\ running = <<>> /\ jobs = <<>> /\ timers = <<>>

(* The loop is between two tasks and the microtask queue is drained *)
TaskBoundary == running = <<>> /\ jobs = <<>>

Logged(level, text, vals) ==
  \E i \in 1..Len(log) :
    log[i] = [level |-> level, text |-> text, vals |-> vals]

(* The outcome the arguments of a fetchData call announce *)
FlagOf(a) == Len(a) >= 3 /\ a[3]
DelayOf(a) == IF Len(a) >= 2 THEN a[2] ELSE 1000
ExpectedState(a) == IF FlagOf(a) THEN "rejected" ELSE "fulfilled"
ExpectedValue(a) ==
  IF FlagOf(a)
  THEN [t |-> "string", s |-> "Error fetching data from " \o a[1]]
  ELSE [t |-> "string", s |-> a[1] \o " data"]

----------------------------------------------------------------------------
(* C1: the outcome of a fetchData operation is fixed by shouldFail alone:  *)
(* once settled it is a success with "{name} data" when shouldFail is      *)
(* false and a failure with "Error fetching data from {name}" when it is   *)
(* true, for every name and every delay; never the other way round.        *)
C1_OutcomeFixedByFlag ==
  \A p \in Fetched :
    /\ promises[p].state = "fulfilled" =>
         /\ ~FlagOf(ArgsOf(p))
         /\ promises[p].value = [t |-> "string", s |-> ArgsOf(p)[1] \o " data"]
    /\ promises[p].state = "rejected" =>
         /\ FlagOf(ArgsOf(p))
         /\ promises[p].value =
              [t |-> "string", s |-> "Error fetching data from " \o ArgsOf(p)[1]]

(* A success and a failure of generated calls side by side *)
C1_Witness ==
  \E p, q \in Fetched :
    /\ promises[p].state = "fulfilled" /\ Len(ArgsOf(p)) = 3
    /\ promises[q].state = "rejected" /\ DelayOf(ArgsOf(q)) = 0

(* C2: a fetchData operation settles at most once -- once it has left      *)
(* pending, its state and its value or reason never change -- and an       *)
(* observer is notified only after the settlement: every queued or running *)
(* reaction job of the operation carries the state and value the operation *)
(* has settled with, and none exists while the operation is pending.       *)
NotifiedAfterSettlement(j) ==
  promises[j.src].kind = "fetchData" =>
    /\ j.state \in {"fulfilled", "rejected"}
    /\ promises[j.src].state = j.state
    /\ promises[j.src].value = j.argument

C2_ObserversAfter ==
  /\ \A i \in 1..Len(jobs) : NotifiedAfterSettlement(jobs[i])
  /\ \A i \in 1..Len(running) :
       running[i].kind = "job" => NotifiedAfterSettlement(running[i].job)
  /\ \A p \in Fetched :
       /\ promises[p].state \in {"pending", "fulfilled", "rejected"}
       /\ Settled(p) => promises[p].reactions = <<>>

C2_Stable ==
  \A p \in Fetched :
    Settled(p) =>
      /\ promises'[p].state = promises[p].state
      /\ promises'[p].value = promises[p].value

C2_SettlesOnce == []C2_ObserversAfter /\ [][C2_Stable]_vars

(* An observer's job queued for an operation that has failed *)
C2_Witness ==
  \E i \in 1..Len(jobs) :
    /\ promises[jobs[i].src].kind = "fetchData"
    /\ promises[jobs[i].src].state = "rejected"
    /\ jobs[i].reaction.type = "then"

(* C3: fetchData never settles synchronously: while the main script is     *)
(* still executing, every operation it has created is pending, also with   *)
(* delay 0, and carries the observer attached after the call returned;     *)
(* that observer is then notified: when nothing is left to run, the        *)
(* .then/.catch chain and the await of getData have logged the outcome.    *)
C3_NeverSynchronous ==
  /\ Executing("script") =>
       \A p \in Fetched :
         /\ promises[p].state = "pending"
         /\ Len(promises[p].reactions) = 1
  /\ Quiescent =>
       \A p \in Fetched :
         LET ok == promises[p].state = "fulfilled"
             v == <<promises[p].value>>
         IN  /\ Settled(p)
             /\ promises[p].demo = 1 =>
                  IF ok THEN Logged("log", "Data received:", v)
                        ELSE Logged("error", "Failed to fetch data:", v)
             /\ promises[p].demo = 2 =>
                  IF ok THEN Logged("log", "Async/Await data:", v)
                        ELSE Logged("error", "Async/Await Error:", v)

(* A call with delay 0 whose observer, attached after the call, was notified *)
C3_Witness ==
  /\ Quiescent
  /\ \E p \in Fetched :
       /\ promises[p].demo = 1
       /\ Len(ArgsOf(p)) >= 2 /\ ArgsOf(p)[2] = 0
       /\ Logged("log", "Data received:", <<promises[p].value>>)

----------------------------------------------------------------------------
(* Combinators: the aggregate g of a demonstration and its inputs *)

Aggregates(kind) == {g \in Promises : promises[g].kind = kind}
Arity(g) == Len(SitesOf(promises[g].demo))
InputArgs(g, i) == args[SitesOf(promises[g].demo)[i]]
Input(g, i) ==
  CHOOSE p \in Fetched : promises[p].site = SitesOf(promises[g].demo)[i]
Unchanged(g) ==
  /\ promises'[g].state = promises[g].state
  /\ promises'[g].value = promises[g].value

(* C4: Promise.all: the aggregate succeeds only once every input has      *)
(* succeeded, and its result is the inputs' success values in input order, *)
(* whatever the order of settlement; when every input is to succeed the    *)
(* aggregate never fails and has succeeded by the task boundary after the  *)
(* last input's success.                                                   *)
C4_AllInInputOrder ==
  \A g \in Aggregates("all") :
    LET n == Arity(g) IN
    /\ promises[g].state = "fulfilled" =>
         /\ \A i \in 1..n : promises[Input(g, i)].state = "fulfilled"
         /\ promises[g].value.t = "array"
         /\ promises[g].value.a = [i \in 1..n |-> promises[Input(g, i)].value]
         /\ promises[g].value.a =
              [i \in 1..n |-> [t |-> "string", s |-> InputArgs(g, i)[1] \o " data"]]
    /\ (\A i \in 1..n : ~FlagOf(InputArgs(g, i))) =>
         /\ promises[g].state # "rejected"
         /\ (TaskBoundary /\ \A i \in 1..n : promises[Input(g, i)].state = "fulfilled")
              => promises[g].state = "fulfilled"

(* All succeed, the first input last *)
C4_Witness ==
  \E g \in Aggregates("all") :
    /\ promises[g].state = "fulfilled"
    /\ DelayOf(InputArgs(g, 1)) > DelayOf(InputArgs(g, 2))
    /\ DelayOf(InputArgs(g, 2)) > DelayOf(InputArgs(g, 3))

(* C5: Promise.all with a failing input: the aggregate never succeeds and *)
(* the success branch is never logged; it fails with the reason of the     *)
(* first input to fail (the failing input of smallest delay, the earlier   *)
(* call among equals), by the task boundary after that input's failure and *)
(* without waiting for the pending inputs; its outcome never changes       *)
(* afterwards while the other inputs settle, and all of them do settle.    *)
(* In the script the reason is "Error fetching data from API 7".           *)
Failing(g) == {i \in 1..Arity(g) : FlagOf(InputArgs(g, i))}
FirstFailing(g) ==
  CHOOSE i \in Failing(g) :
    \A j \in Failing(g) :
      \/ DelayOf(InputArgs(g, i)) < DelayOf(InputArgs(g, j))
      \/ DelayOf(InputArgs(g, i)) = DelayOf(InputArgs(g, j)) /\ i <= j

SuccessText(g) ==
  IF promises[g].demo = 3 THEN "All data fetched:" ELSE "Fetched all successfully:"

C5_FailsFast ==
  \A g \in Aggregates("all") :
    /\ Failing(g) # {} =>
         /\ promises[g].state # "fulfilled"
         /\ \A i \in 1..Len(log) : log[i].text # SuccessText(g)
    /\ promises[g].state = "rejected" =>
         /\ Failing(g) # {}
         /\ promises[Input(g, FirstFailing(g))].state = "rejected"
         /\ promises[g].value = promises[Input(g, FirstFailing(g))].value
         /\ promises[g].value = ExpectedValue(InputArgs(g, FirstFailing(g)))
    /\ (TaskBoundary /\ \E i \in 1..Arity(g) : promises[Input(g, i)].state = "rejected")
         => promises[g].state = "rejected"
    /\ Quiescent => \A i \in 1..Arity(g) : Settled(Input(g, i))
    /\ (args = ScriptArgs /\ promises[g].demo = 6 /\ Settled(g)) =>
         /\ promises[g].state = "rejected"
         /\ promises[g].value = [t |-> "string", s |-> "Error fetching data from API 7"]

C5_Final ==
  \A g \in Aggregates("all") : promises[g].state = "rejected" => Unchanged(g)

C5_AllFailsAtFirstFailure == []C5_FailsFast /\ [][C5_Final]_vars

(* The aggregate has failed while an input is pending and another has succeeded *)
C5_Witness ==
  \E g \in Aggregates("all") :
    /\ promises[g].state = "rejected"
    /\ \E i, j \in 1..Arity(g) :
         /\ promises[Input(g, i)].state = "pending"
         /\ promises[Input(g, j)].state = "fulfilled"

(* C6: Promise.race over inputs of pairwise distinct delays: the          *)
(* aggregate's outcome is the outcome of the input of smallest delay, a    *)
(* success or a failure alike; it is there by the task boundary after the  *)
(* first settlement and the later settlements never change it.             *)
DistinctDelays(g) ==
  \A i, j \in 1..Arity(g) :
    i # j => DelayOf(InputArgs(g, i)) # DelayOf(InputArgs(g, j))
Fastest(g) ==
  CHOOSE i \in 1..Arity(g) :
    \A j \in 1..Arity(g) : DelayOf(InputArgs(g, i)) <= DelayOf(InputArgs(g, j))

C6_Adopts ==
  \A g \in Aggregates("race") :
    DistinctDelays(g) =>
      /\ Settled(g) =>
           /\ promises[g].state = ExpectedState(InputArgs(g, Fastest(g)))
           /\ promises[g].value = ExpectedValue(InputArgs(g, Fastest(g)))
           /\ promises[g].value = promises[Input(g, Fastest(g))].value
      /\ (TaskBoundary /\ \E i \in 1..Arity(g) : Settled(Input(g, i))) => Settled(g)

C6_Final == \A g \in Aggregates("race") : Settled(g) => Unchanged(g)

C6_RaceAdoptsFastest == []C6_Adopts /\ [][C6_Final]_vars

(* The fastest input failed, the aggregate failed, a slower input succeeded since *)
C6_Witness ==
  \E g \in Aggregates("race") :
    /\ DistinctDelays(g)
    /\ promises[g].state = "rejected"
    /\ Fastest(g) # 1
    /\ \E j \in 1..Arity(g) : promises[Input(g, j)].state = "fulfilled"

(* C7: Promise.allSettled: the aggregate never fails; it succeeds only    *)
(* once every input has settled, and has by the task boundary after the    *)
(* last settlement; its result has one entry per input, in input order,    *)
(* tagged fulfilled with the input's value or rejected with its reason.    *)
C7_AllSettledTagged ==
  \A g \in Aggregates("allSettled") :
    LET n == Arity(g) IN
    /\ promises[g].state # "rejected"
    /\ promises[g].state = "fulfilled" =>
         /\ \A i \in 1..n : Settled(Input(g, i))
         /\ promises[g].value.t = "array"
         /\ Len(promises[g].value.a) = n
         /\ \A i \in 1..n :
              promises[g].value.a[i] =
                IF promises[Input(g, i)].state = "fulfilled"
                THEN [status |-> "fulfilled", value |-> promises[Input(g, i)].value]
                ELSE [status |-> "rejected", reason |-> promises[Input(g, i)].value]
         /\ \A i \in 1..n :
              promises[g].value.a[i].status = ExpectedState(InputArgs(g, i))
    /\ (TaskBoundary /\ \A i \in 1..n : Settled(Input(g, i)))
         => promises[g].state = "fulfilled"

(* A mixed result whose failing input came second and settled first *)
C7_Witness ==
  \E g \in Aggregates("allSettled") :
    /\ promises[g].state = "fulfilled"
    /\ promises[g].value.a[1].status = "fulfilled"
    /\ promises[g].value.a[2].status = "rejected"
    /\ DelayOf(InputArgs(g, 2)) < DelayOf(InputArgs(g, 1))

----------------------------------------------------------------------------
(* Counters *)

Counters == 1..Len(counters)
LastReset(h) ==
  IF \E i \in 1..Len(h) : h[i] = "reset"
  THEN CHOOSE i \in 1..Len(h) : h[i] = "reset" /\ \A j \in (i + 1)..Len(h) : h[j] # "reset"
  ELSE 0
CountSince(h, op) == Cardinality({i \in (LastReset(h) + 1)..Len(h) : h[i] = op})
NetCount(h) == CountSince(h, "increment") - CountSince(h, "decrement")

(* C8: a counter starts at 0; after increment, increment, decrement it is *)
(* 1 and after reset 0; after any sequence of calls its value is the       *)
(* number of increments minus the number of decrements since the most      *)
(* recent reset (or since creation), and increment and decrement log       *)
(* exactly the resulting value.                                            *)
C8_Value ==
  \A c \in Counters :
    /\ counters[c] = NetCount(hist[c])
    /\ hist[c] = <<>> => counters[c] = 0
    /\ hist[c] = <<"increment", "increment", "decrement">> => counters[c] = 1
    /\ (hist[c] # <<>> /\ hist[c][Len(hist[c])] = "reset") => counters[c] = 0

C8_Logs ==
  \A c \in Counters :
    hist'[c] # hist[c] =>
      LET op == hist'[c][Len(hist'[c])] IN
      /\ hist'[c] = Append(hist[c], op)
      /\ op \in {"increment", "decrement"} =>
           clog' = Append(clog, [text |-> "Current count:", vals |-> <<NetCount(hist'[c])>>])
      /\ op = "reset" =>
           clog' = Append(clog, [text |-> "Counter reset.", vals |-> <<>>])

C8_CounterValue == []C8_Value /\ [][C8_Logs]_vars

(* The calls of the script: 1, 2, 1 logged, then the reset *)
C8_Witness ==
  /\ Len(counters) >= 1
  /\ hist[1] = <<"increment", "increment", "decrement", "reset">>
  /\ counters[1] = 0
  /\ Len(clog) = 4
  /\ clog[1].vals = <<1>> /\ clog[2].vals = <<2>> /\ clog[3].vals = <<1>>

(* C9: counters made by separate calls of createCounter are independent:  *)
(* a step changes the value of a counter only if it is a call of one of    *)
(* that counter's own operations, and no step is a call on two counters.   *)
C9_Frame ==
  /\ \A c \in Counters : hist'[c] = hist[c] => counters'[c] = counters[c]
  /\ \A c, d \in Counters : (hist'[c] # hist[c] /\ hist'[d] # hist[d]) => c = d
  /\ Len(counters') >= Len(counters)

C9_Independent == [][C9_Frame]_vars

(* Two counters that have moved apart, by interleaved calls *)
C9_Witness ==
  /\ Len(counters) = 2
  /\ counters[1] = 2 /\ counters[2] = -1
  /\ clog[1].vals = <<1>> /\ clog[2].vals = <<-1>> /\ clog[3].vals = <<2>>

(* C10: settlement callbacks run in the order of their due time, not in   *)
(* program order: of two fetchData operations of one run, the one of       *)
(* smaller delay settles first, also when it was created later; hence the  *)
(* output of fetchWithAllSettled precedes the output of getAllData; and at *)
(* most one callback is executing at any time.                             *)
AllSettledTexts ==
  {"API " \o ToString(n) \o e :
     n \in 9..11, e \in {" succeeded with data:", " failed with reason:"}}

C10_DueTimeOrder ==
  /\ \A p, q \in Fetched :
       (DelayOf(ArgsOf(p)) < DelayOf(ArgsOf(q)) /\ Settled(q)) => Settled(p)
  /\ Len(running) <= 1
  /\ \A i, j \in 1..Len(log) :
       (log[i].text = "All data fetched:" /\ log[j].text \in AllSettledTexts) => j < i
  /\ (Quiescent /\ args = ScriptArgs /\ Len(promises) > 12) =>
       /\ \E i \in 1..Len(log) : log[i].text = "All data fetched:"
       /\ Cardinality({j \in 1..Len(log) : log[j].text \in AllSettledTexts}) = 3

(* API 10, created last but one with delay 500, has settled while API 2,  *)
(* created second with delay 1000, is pending.                            *)
C10_Witness ==
  \E p, q \in Fetched :
    /\ p < q
    /\ DelayOf(ArgsOf(q)) < DelayOf(ArgsOf(p))
    /\ Settled(q) /\ ~Settled(p)
    /\ ArgsOf(q)[1] = "API 10" /\ ArgsOf(p)[1] = "API 2"

----------------------------------------------------------------------------
(* The console lines of each demonstration *)

Ran == {promises[p].demo : p \in Promises}

SuccessTexts(k) ==
  CASE k = 1 -> {"Data received:"}
    [] k = 2 -> {"Async/Await data:"}
    [] k = 3 -> {"All data fetched:"}
    [] k = 4 -> {"Fastest data received:"}
    [] k = 5 -> {"Resolved:"}
    [] k = 6 -> {"Fetched all successfully:"}
    [] k = 7 -> {"API " \o ToString(n) \o " succeeded with data:" : n \in 9..11}

FailureTexts(k) ==
  CASE k = 1 -> {"Failed to fetch data:"}
    [] k = 2 -> {"Async/Await Error:"}
    [] k = 3 -> {"Error in Promise.all:"}
    [] k = 4 -> {"Error in Promise.race:"}
    [] k = 5 -> {"Rejected:"}
    [] k = 6 -> {"Error in one of the APIs:"}
    [] k = 7 -> {"API " \o ToString(n) \o " failed with reason:" : n \in 9..11}

LinesOf(k) ==
  {i \in 1..Len(log) : log[i].text \in SuccessTexts(k) \cup FailureTexts(k)}

(* C11: every fetchData operation eventually settles -- nothing cancels   *)
(* it and nothing times out -- and every demonstration eventually reaches  *)
(* its success log or its failure log, when the event loop keeps running.  *)
C11_AllDone ==
  /\ Quiescent
  /\ Fetched # {}
  /\ \A p \in Fetched : Settled(p)
  /\ \A k \in Ran : k # 5 => LinesOf(k) # {}

C11_EventuallySettles == <>C11_AllDone

(* The whole script has run: fourteen operations settled, every log there *)
C11_Witness ==
  /\ C11_AllDone
  /\ Cardinality(Fetched) = 14
  /\ \A k \in Demos : LinesOf(k) # {}

----------------------------------------------------------------------------
(* The console lines of demonstration k, in order, and what the script as *)
(* written prints for it.                                                 *)
DemoLog(k) ==
  LET Mine(e) == e.text \in SuccessTexts(k) \cup FailureTexts(k)
  IN  SelectSeq(log, Mine)

Line(level, text, strings) ==
  [level |-> level, text |-> text,
   vals |-> [i \in 1..Len(strings) |-> [t |-> "string", s |-> strings[i]]]]

ScriptLog(k) ==
  CASE k = 1 -> << Line("log", "Data received:", <<"API 1 data">>) >>
    [] k = 2 -> << Line("log", "Async/Await data:", <<"API 2 data">>) >>
    [] k = 3 -> << Line("log", "All data fetched:",
                        <<"API 3 data", "API 4 data", "API 5 data">>) >>
    [] k = 4 -> << Line("log", "Fastest data received:", <<"Fast API data">>) >>
    [] k = 5 -> << Line("log", "Resolved:", <<"This is resolved data">>),
                   Line("error", "Rejected:", <<"This promise is always rejected">>) >>
    [] k = 6 -> << Line("error", "Error in one of the APIs:",
                        <<"Error fetching data from API 7">>) >>
    [] k = 7 -> << Line("log", "API 9 succeeded with data:", <<"API 9 data">>),
                   Line("warn", "API 10 failed with reason:",
                        <<"Error fetching data from API 10">>),
                   Line("log", "API 11 succeeded with data:", <<"API 11 data">>) >>

AsWritten(k) == \A s \in SiteSet(k) : args[s] = ScriptArgs[s]

(* C12: failures stay local: no rejected promise is without a handler, no *)
(* async function of the script ends in a failure of its own, and a        *)
(* demonstration whose own fetchData calls are as written prints exactly   *)
(* what the script prints for it, whether or not an operation of another   *)
(* demonstration fails.                                                    *)
C12_FailuresLocal ==
  /\ \A p \in Promises : promises[p].state = "rejected" => promises[p].handled
  /\ \A p \in Promises : promises[p].kind = "async" => promises[p].state # "rejected"
  /\ \A k \in Demos :
       AsWritten(k) =>
         /\ \E n \in 0..Len(ScriptLog(k)) : DemoLog(k) = SubSeq(ScriptLog(k), 1, n)
         /\ Quiescent => DemoLog(k) = ScriptLog(k)

(* API 3 made to fail: getAllData prints its error, the others print as written *)
C12_Witness ==
  /\ Quiescent
  /\ FlagOf(args[3])
  /\ DemoLog(3) # ScriptLog(3)
  /\ \A k \in Demos \ {3} : DemoLog(k) = ScriptLog(k)

----------------------------------------------------------------------------
(* The async functions with a try/catch around their await *)

TryCatch == {f \in Promises : promises[f].kind = "async" /\ promises[f].demo \in {2, 3, 4, 6}}

(* The promise the function f awaits: the fetchData operation in getData, *)
(* the aggregate in the other three.                                      *)
Awaited(f) ==
  CHOOSE w \in Promises :
    /\ promises[w].demo = promises[f].demo
    /\ promises[w].kind = (CASE promises[f].demo = 2 -> "fetchData"
                             [] promises[f].demo = 4 -> "race"
                             [] OTHER -> "all")

(* What the continuation is handed: getAllData destructures the array *)
Handed(f) ==
  LET v == promises[Awaited(f)].value IN
  IF promises[f].demo = 3 /\ promises[Awaited(f)].state = "fulfilled"
  THEN <<v.a[1], v.a[2], v.a[3]>>
  ELSE <<v>>

(* C13: in getData, getAllData, getFastestData and fetchAllWithErrors     *)
(* exactly one branch runs, once: never more than one line is logged, and  *)
(* a line is logged only after the awaited operation has settled -- the    *)
(* success line with its value when it succeeded, the catch line with its  *)
(* reason when it failed; the function is finished exactly when its line   *)
(* is logged, and the line is there when nothing is left to run.           *)
C13_OneBranchOnce ==
  \A f \in TryCatch :
    LET k == promises[f].demo
        w == Awaited(f)
    IN  /\ Cardinality(LinesOf(k)) <= 1
        /\ \A i \in LinesOf(k) :
             /\ Settled(w)
             /\ log[i].text \in SuccessTexts(k) <=> promises[w].state = "fulfilled"
             /\ log[i].level = (IF promises[w].state = "fulfilled" THEN "log" ELSE "error")
             /\ log[i].vals = Handed(f)
        /\ Settled(f) <=> LinesOf(k) # {}
        /\ Quiescent => Cardinality(LinesOf(k)) = 1

(* A catch branch has run, with the reason of the failed operation *)
C13_Witness ==
  \E f \in TryCatch :
    /\ promises[f].demo = 4
    /\ promises[Awaited(f)].state = "rejected"
    /\ \E i \in LinesOf(4) :
         log[i] = [level |-> "error", text |-> "Error in Promise.race:",
                   vals |-> <<promises[Awaited(f)].value>>]

----------------------------------------------------------------------------
(* The click handlers of setupButton.                                      *)

ClickLine(id, n) ==
  [text |-> "Button " \o id \o " clicked " \o ToString(n) \o " times.", vals |-> <<>>]

(* Every click counter equals the number of clicks dispatched to its handler *)
C14_Count == \A b \in DOMAIN buttons : buttons[b].clickCount = seen[b]

(* One step moves a click counter by nothing or by exactly one; the step   *)
(* that moves it to n logs the count n, leaves the counters of             *)
(* createCounter and the click counters of other elements alone; a step    *)
(* that changes a counter of createCounter leaves every click counter alone *)
C14_Step ==
  \A b \in DOMAIN buttons :
    LET n == buttons[b].clickCount
        m == buttons'[b].clickCount
    IN  /\ m \in {n, n + 1}
        /\ m = n + 1 =>
             /\ \E i \in (Len(clog) + 1)..Len(clog') :
                  clog'[i] = ClickLine(buttons[b].buttonId, m)
             /\ counters' = counters
             /\ \A q \in DOMAIN buttons :
                  buttons[q].button # buttons[b].button => buttons'[q] = buttons[q]
        /\ counters' # counters => buttons' = buttons

(* C14: the handler registered by setupButton runs once per click and     *)
(* increments its private click counter by exactly one: after n clicks on  *)
(* the element the counter is n and the n-th click logs n; the count never *)
(* decreases, is never reset, and is shared neither with a counter of      *)
(* createCounter nor with the handler of another setupButton call.         *)
C14_PrivateClickCount == []C14_Count /\ [][C14_Step]_vars

(* Two handlers on one element, registered one click apart, hold 2 and 1,  *)
(* while the counter of createCounter has moved on its own                 *)
C14_Witness ==
  /\ Len(buttons) = 2
  /\ buttons[1].button = buttons[2].button
  /\ buttons[1].button # "null"
  /\ buttons[1].clickCount = 2
  /\ buttons[2].clickCount = 1
  /\ counters[1] = 1

----------------------------------------------------------------------------
(* setupButton for an identifier without an element.                       *)

Missing == SelectSeq(buttons, LAMBDA s : s.button = "null")

(* C15: a setupButton call whose identifier has no element registers no    *)
(* handler and ends in a TypeError raised by the call itself; its click    *)
(* counter stays 0 and unreachable from every element, and as long as      *)
(* every call for an identifier failed no click is logged for it.          *)
C15_MissingElement ==
  /\ \A b \in DOMAIN buttons :
       buttons[b].button = "null" =>
         /\ buttons[b].clickCount = 0
         /\ seen[b] = 0
         /\ \A id \in Ids : \A i \in 1..Len(listeners[id]) : listeners[id][i] # b
  /\ thrown = [i \in 1..Len(Missing) |->
                [error |-> "TypeError", buttonId |-> Missing[i].buttonId]]
  /\ \A id \in Ids :
       (\A b \in DOMAIN buttons : buttons[b].buttonId = id => buttons[b].button = "null")
         => /\ listeners[id] = <<>>
            /\ \A i \in 1..Len(clog) : \A n \in 1..MaxOps : clog[i] # ClickLine(id, n)

(* The first call failed; the element was added later, a second call       *)
(* registered a handler and a click was counted by that one only           *)
C15_Witness ==
  /\ Len(buttons) = 2
  /\ buttons[1].button = "null"
  /\ buttons[1].buttonId = buttons[2].buttonId
  /\ buttons[2].clickCount = 1
  /\ Len(thrown) = 1

----------------------------------------------------------------------------
(* The operations of the script are in flight together.                    *)

(* C16: the top-level calls return at their first await without blocking:  *)
(* while the script executes the clock stands at its start, nothing is     *)
(* logged and no operation has settled; every fetchData operation of the   *)
(* script is created before any settlement callback runs; and every timer  *)
(* is due at its own delay from script start, so that once the loop has    *)
(* caught up with the clock exactly the operations whose delay has elapsed *)
(* are settled.                                                            *)
C16_InFlightTogether ==
  /\ Executing("script") =>
       /\ now = 0
       /\ log = <<>>
       /\ \A p \in Fetched : ~Settled(p)
  /\ (Executing("timer") \/ \E p \in Fetched : Settled(p)) =>
       /\ todo = <<>>
       /\ Cardinality(Fetched) = Cardinality(Sites)
  /\ \A i \in 1..Len(timers) :
       /\ timers[i].due = timers[i].delay
       /\ timers[i].delay = DelayOf(ArgsOf(timers[i].promise))
  /\ \A p \in Fetched : Settled(p) => DelayOf(ArgsOf(p)) <= now
  /\ (TaskBoundary /\ todo = <<>> /\ \A i \in 1..Len(timers) : ~Due(i)) =>
       \A p \in Fetched : Settled(p) <=> DelayOf(ArgsOf(p)) <= now

(* At time 500 the operations of delay 500 have settled, the thirteenth    *)
(* created among them, and the other eleven are pending                    *)
C16_Witness ==
  /\ args = ScriptArgs
  /\ TaskBoundary
  /\ now = 500
  /\ Cardinality({p \in Fetched : Settled(p)}) = 3
  /\ \E p \in Fetched : promises[p].site = 13 /\ Settled(p)
  /\ Cardinality({p \in Fetched : ~Settled(p)}) = 11

----------------------------------------------------------------------------
(* The handlers of the already-settled promises.                           *)

ResolvedLine ==
  [level |-> "log", text |-> "Resolved:", vals |-> <<Str("This is resolved data")>>]
RejectedLine ==
  [level |-> "error", text |-> "Rejected:", vals |-> <<Str("This promise is always rejected")>>]
LinesWith(text) == {i \in 1..Len(log) : log[i].text = text}

(* C17: the handlers attached to alwaysResolve() and alwaysReject() do not *)
(* run during the script that attaches them; both have run, once each,     *)
(* before the settlement callback of any fetchData operation runs, also of *)
(* one with delay 0; and "Resolved:" is logged before "Rejected:".         *)
C17_SettledHandlersFirst ==
  /\ Executing("script") => LinesWith("Resolved:") \cup LinesWith("Rejected:") = {}
  /\ (5 \in Ran /\ (Executing("timer") \/ \E p \in Fetched : Settled(p))) =>
       /\ \E i \in LinesWith("Resolved:") : log[i] = ResolvedLine
       /\ \E j \in LinesWith("Rejected:") : log[j] = RejectedLine
  /\ \A i \in LinesWith("Resolved:") : \A j \in LinesWith("Rejected:") : i < j
  /\ Cardinality(LinesWith("Resolved:")) <= 1
  /\ Cardinality(LinesWith("Rejected:")) <= 1
  /\ LinesWith("Rejected:") # {} => LinesWith("Resolved:") # {}

(* The callback of a fetchData operation of delay 0 is executing: the two  *)
(* handlers have logged, and nothing else has                              *)
C17_Witness ==
  /\ Executing("timer")
  /\ Top.timer.delay = 0
  /\ now = 0
  /\ log = <<ResolvedLine, RejectedLine>>

----------------------------------------------------------------------------
(* The counter has no lower bound.                                         *)

(* decrement can be called on every counter, whatever its value *)
C18_Accepted ==
  \A c \in Counters : Len(clog) < MaxOps => ENABLED Decrement(c)

(* A call of decrement takes exactly one off, a call of reset gives 0, and *)
(* a reset that follows a reset changes no counter                         *)
C18_Step ==
  \A c \in Counters :
    /\ hist'[c] = Append(hist[c], "decrement") =>
         /\ counters'[c] = counters[c] - 1
         /\ counters[c] = 0 => counters'[c] = -1
    /\ hist'[c] = Append(hist[c], "reset") =>
         /\ counters'[c] = 0
         /\ (hist[c] # <<>> /\ hist[c][Len(hist[c])] = "reset") => counters' = counters

(* C18: the counter of createCounter has no lower bound: decrement is      *)
(* accepted in every state and takes a counter at 0 to -1; reset returns   *)
(* the counter to exactly 0 from any value, positive or negative; reset is *)
(* idempotent.                                                             *)
C18_NoLowerBound == []C18_Accepted /\ [][C18_Step]_vars

(* Two decrements from 0 logged -1 and -2, then two resets left 0 *)
C18_Witness ==
  /\ Len(counters) >= 1
  /\ hist[1] = <<"decrement", "decrement", "reset", "reset">>
  /\ clog[1].vals = <<-1>> /\ clog[2].vals = <<-2>>
  /\ counters[1] = 0

----------------------------------------------------------------------------
(* Operations of equal delay.                                              *)

(* The input of smallest delay, the first in the input sequence among equals *)
FirstFastest(g) ==
  CHOOSE i \in 1..Arity(g) :
    \A j \in 1..Arity(g) :
      \/ DelayOf(InputArgs(g, i)) < DelayOf(InputArgs(g, j))
      \/ DelayOf(InputArgs(g, i)) = DelayOf(InputArgs(g, j)) /\ i <= j

(* API 1, Fast API and API 10, by call site *)
Delay500 == <<1, 6, 13>>

(* C19: two fetchData operations of the same delay settle in the order of  *)
(* their creation; hence the aggregate of Promise.race adopts the outcome  *)
(* of the first input in the sequence among those of smallest delay; and   *)
(* the script's three operations of delay 500 settle in the order API 1,   *)
(* Fast API, API 10.                                                       *)
C19_CreationOrderAmongEquals ==
  /\ \A p, q \in Fetched :
       (p < q /\ DelayOf(ArgsOf(p)) = DelayOf(ArgsOf(q)) /\ Settled(q)) => Settled(p)
  /\ \A g \in Aggregates("race") :
       Settled(g) =>
         /\ promises[g].state = ExpectedState(InputArgs(g, FirstFastest(g)))
         /\ promises[g].value = ExpectedValue(InputArgs(g, FirstFastest(g)))
  /\ args = ScriptArgs =>
       /\ {s \in Sites : DelayOf(args[s]) = 500} = {Delay500[i] : i \in 1..3}
       /\ <<args[1][1], args[6][1], args[13][1]>> = <<"API 1", "Fast API", "API 10">>
       /\ \A i, j \in 1..3 : \A p, q \in Fetched :
            (i < j /\ promises[p].site = Delay500[i] /\ promises[q].site = Delay500[j]
               /\ Settled(q)) => Settled(p)

(* The first two inputs of a race share the smallest delay, the first is   *)
(* to succeed and the second to fail: both have settled, the aggregate has *)
(* succeeded                                                               *)
C19_Witness ==
  \E g \in Aggregates("race") :
    /\ DelayOf(InputArgs(g, 1)) = DelayOf(InputArgs(g, 2))
    /\ DelayOf(InputArgs(g, 1)) < DelayOf(InputArgs(g, 3))
    /\ ~FlagOf(InputArgs(g, 1)) /\ FlagOf(InputArgs(g, 2))
    /\ promises[Input(g, 2)].state = "rejected"
    /\ promises[g].state = "fulfilled"
====
